---- MODULE Spec2Model ----
\* Model of bpystubgen's task tree (src/bpystubgen/tasks.py): Task.create,
\* Task.__iter__, ParserTask.parse, ModuleTask.parse / target_path / generate,
\* and of the node-level signature rendering exercised by tests/test_function.py.
\* Strings that the code inspects character by character (file names, segment
\* names) are sequences of code points.
EXTENDS Integers, Naturals, Sequences, FiniteSets, TLC

\* ---------------------------------------------------------------------------
\* Characters and strings (code points)
\* ---------------------------------------------------------------------------
Dot == 46
Str_m == <<109>>
Str_s == <<115>>
Str_t == <<116>>
Str_x == <<120>>
Str_eacute == <<233>>
Str_A == <<65>>
Str_B == <<66>>
Str_D == <<68>>
Str_N == <<78>>
Str_f == <<102>>
Str_g == <<103>>
Str_d1 == <<100, 49>>
Str_d2 == <<100, 50>>
Str_rst == <<114, 115, 116>>
Str_pyi == <<112, 121, 105>>
Str_init == <<95, 95, 105, 110, 105, 116, 95, 95>>
Str_out == <<111, 117, 116>>
Str_pytyped == <<112, 121, 46, 116, 121, 112, 101, 100>>

\* the code points c with chr(c).islower() (Python 3.11, Unicode 14.0), as
\* inclusive ranges <<first, last>>
LowerRanges == <<
  <<97, 122>>, <<170, 170>>, <<181, 181>>, <<186, 186>>, <<223, 246>>, <<248, 255>>,
  <<257, 257>>, <<259, 259>>, <<261, 261>>, <<263, 263>>, <<265, 265>>, <<267, 267>>,
  <<269, 269>>, <<271, 271>>, <<273, 273>>, <<275, 275>>, <<277, 277>>, <<279, 279>>,
  <<281, 281>>, <<283, 283>>, <<285, 285>>, <<287, 287>>, <<289, 289>>, <<291, 291>>,
  <<293, 293>>, <<295, 295>>, <<297, 297>>, <<299, 299>>, <<301, 301>>, <<303, 303>>,
  <<305, 305>>, <<307, 307>>, <<309, 309>>, <<311, 312>>, <<314, 314>>, <<316, 316>>,
  <<318, 318>>, <<320, 320>>, <<322, 322>>, <<324, 324>>, <<326, 326>>, <<328, 329>>,
  <<331, 331>>, <<333, 333>>, <<335, 335>>, <<337, 337>>, <<339, 339>>, <<341, 341>>,
  <<343, 343>>, <<345, 345>>, <<347, 347>>, <<349, 349>>, <<351, 351>>, <<353, 353>>,
  <<355, 355>>, <<357, 357>>, <<359, 359>>, <<361, 361>>, <<363, 363>>, <<365, 365>>,
  <<367, 367>>, <<369, 369>>, <<371, 371>>, <<373, 373>>, <<375, 375>>, <<378, 378>>,
  <<380, 380>>, <<382, 384>>, <<387, 387>>, <<389, 389>>, <<392, 392>>, <<396, 397>>,
  <<402, 402>>, <<405, 405>>, <<409, 411>>, <<414, 414>>, <<417, 417>>, <<419, 419>>,
  <<421, 421>>, <<424, 424>>, <<426, 427>>, <<429, 429>>, <<432, 432>>, <<436, 436>>,
  <<438, 438>>, <<441, 442>>, <<445, 447>>, <<454, 454>>, <<457, 457>>, <<460, 460>>,
  <<462, 462>>, <<464, 464>>, <<466, 466>>, <<468, 468>>, <<470, 470>>, <<472, 472>>,
  <<474, 474>>, <<476, 477>>, <<479, 479>>, <<481, 481>>, <<483, 483>>, <<485, 485>>,
  <<487, 487>>, <<489, 489>>, <<491, 491>>, <<493, 493>>, <<495, 496>>, <<499, 499>>,
  <<501, 501>>, <<505, 505>>, <<507, 507>>, <<509, 509>>, <<511, 511>>, <<513, 513>>,
  <<515, 515>>, <<517, 517>>, <<519, 519>>, <<521, 521>>, <<523, 523>>, <<525, 525>>,
  <<527, 527>>, <<529, 529>>, <<531, 531>>, <<533, 533>>, <<535, 535>>, <<537, 537>>,
  <<539, 539>>, <<541, 541>>, <<543, 543>>, <<545, 545>>, <<547, 547>>, <<549, 549>>,
  <<551, 551>>, <<553, 553>>, <<555, 555>>, <<557, 557>>, <<559, 559>>, <<561, 561>>,
  <<563, 569>>, <<572, 572>>, <<575, 576>>, <<578, 578>>, <<583, 583>>, <<585, 585>>,
  <<587, 587>>, <<589, 589>>, <<591, 659>>, <<661, 696>>, <<704, 705>>, <<736, 740>>,
  <<837, 837>>, <<881, 881>>, <<883, 883>>, <<887, 887>>, <<890, 893>>, <<912, 912>>,
  <<940, 974>>, <<976, 977>>, <<981, 983>>, <<985, 985>>, <<987, 987>>, <<989, 989>>,
  <<991, 991>>, <<993, 993>>, <<995, 995>>, <<997, 997>>, <<999, 999>>, <<1001, 1001>>,
  <<1003, 1003>>, <<1005, 1005>>, <<1007, 1011>>, <<1013, 1013>>, <<1016, 1016>>,
  <<1019, 1020>>, <<1072, 1119>>, <<1121, 1121>>, <<1123, 1123>>, <<1125, 1125>>,
  <<1127, 1127>>, <<1129, 1129>>, <<1131, 1131>>, <<1133, 1133>>, <<1135, 1135>>,
  <<1137, 1137>>, <<1139, 1139>>, <<1141, 1141>>, <<1143, 1143>>, <<1145, 1145>>,
  <<1147, 1147>>, <<1149, 1149>>, <<1151, 1151>>, <<1153, 1153>>, <<1163, 1163>>,
  <<1165, 1165>>, <<1167, 1167>>, <<1169, 1169>>, <<1171, 1171>>, <<1173, 1173>>,
  <<1175, 1175>>, <<1177, 1177>>, <<1179, 1179>>, <<1181, 1181>>, <<1183, 1183>>,
  <<1185, 1185>>, <<1187, 1187>>, <<1189, 1189>>, <<1191, 1191>>, <<1193, 1193>>,
  <<1195, 1195>>, <<1197, 1197>>, <<1199, 1199>>, <<1201, 1201>>, <<1203, 1203>>,
  <<1205, 1205>>, <<1207, 1207>>, <<1209, 1209>>, <<1211, 1211>>, <<1213, 1213>>,
  <<1215, 1215>>, <<1218, 1218>>, <<1220, 1220>>, <<1222, 1222>>, <<1224, 1224>>,
  <<1226, 1226>>, <<1228, 1228>>, <<1230, 1231>>, <<1233, 1233>>, <<1235, 1235>>,
  <<1237, 1237>>, <<1239, 1239>>, <<1241, 1241>>, <<1243, 1243>>, <<1245, 1245>>,
  <<1247, 1247>>, <<1249, 1249>>, <<1251, 1251>>, <<1253, 1253>>, <<1255, 1255>>,
  <<1257, 1257>>, <<1259, 1259>>, <<1261, 1261>>, <<1263, 1263>>, <<1265, 1265>>,
  <<1267, 1267>>, <<1269, 1269>>, <<1271, 1271>>, <<1273, 1273>>, <<1275, 1275>>,
  <<1277, 1277>>, <<1279, 1279>>, <<1281, 1281>>, <<1283, 1283>>, <<1285, 1285>>,
  <<1287, 1287>>, <<1289, 1289>>, <<1291, 1291>>, <<1293, 1293>>, <<1295, 1295>>,
  <<1297, 1297>>, <<1299, 1299>>, <<1301, 1301>>, <<1303, 1303>>, <<1305, 1305>>,
  <<1307, 1307>>, <<1309, 1309>>, <<1311, 1311>>, <<1313, 1313>>, <<1315, 1315>>,
  <<1317, 1317>>, <<1319, 1319>>, <<1321, 1321>>, <<1323, 1323>>, <<1325, 1325>>,
  <<1327, 1327>>, <<1376, 1416>>, <<4304, 4346>>, <<4349, 4351>>, <<5112, 5117>>,
  <<7296, 7304>>, <<7424, 7615>>, <<7681, 7681>>, <<7683, 7683>>, <<7685, 7685>>,
  <<7687, 7687>>, <<7689, 7689>>, <<7691, 7691>>, <<7693, 7693>>, <<7695, 7695>>,
  <<7697, 7697>>, <<7699, 7699>>, <<7701, 7701>>, <<7703, 7703>>, <<7705, 7705>>,
  <<7707, 7707>>, <<7709, 7709>>, <<7711, 7711>>, <<7713, 7713>>, <<7715, 7715>>,
  <<7717, 7717>>, <<7719, 7719>>, <<7721, 7721>>, <<7723, 7723>>, <<7725, 7725>>,
  <<7727, 7727>>, <<7729, 7729>>, <<7731, 7731>>, <<7733, 7733>>, <<7735, 7735>>,
  <<7737, 7737>>, <<7739, 7739>>, <<7741, 7741>>, <<7743, 7743>>, <<7745, 7745>>,
  <<7747, 7747>>, <<7749, 7749>>, <<7751, 7751>>, <<7753, 7753>>, <<7755, 7755>>,
  <<7757, 7757>>, <<7759, 7759>>, <<7761, 7761>>, <<7763, 7763>>, <<7765, 7765>>,
  <<7767, 7767>>, <<7769, 7769>>, <<7771, 7771>>, <<7773, 7773>>, <<7775, 7775>>,
  <<7777, 7777>>, <<7779, 7779>>, <<7781, 7781>>, <<7783, 7783>>, <<7785, 7785>>,
  <<7787, 7787>>, <<7789, 7789>>, <<7791, 7791>>, <<7793, 7793>>, <<7795, 7795>>,
  <<7797, 7797>>, <<7799, 7799>>, <<7801, 7801>>, <<7803, 7803>>, <<7805, 7805>>,
  <<7807, 7807>>, <<7809, 7809>>, <<7811, 7811>>, <<7813, 7813>>, <<7815, 7815>>,
  <<7817, 7817>>, <<7819, 7819>>, <<7821, 7821>>, <<7823, 7823>>, <<7825, 7825>>,
  <<7827, 7827>>, <<7829, 7837>>, <<7839, 7839>>, <<7841, 7841>>, <<7843, 7843>>,
  <<7845, 7845>>, <<7847, 7847>>, <<7849, 7849>>, <<7851, 7851>>, <<7853, 7853>>,
  <<7855, 7855>>, <<7857, 7857>>, <<7859, 7859>>, <<7861, 7861>>, <<7863, 7863>>,
  <<7865, 7865>>, <<7867, 7867>>, <<7869, 7869>>, <<7871, 7871>>, <<7873, 7873>>,
  <<7875, 7875>>, <<7877, 7877>>, <<7879, 7879>>, <<7881, 7881>>, <<7883, 7883>>,
  <<7885, 7885>>, <<7887, 7887>>, <<7889, 7889>>, <<7891, 7891>>, <<7893, 7893>>,
  <<7895, 7895>>, <<7897, 7897>>, <<7899, 7899>>, <<7901, 7901>>, <<7903, 7903>>,
  <<7905, 7905>>, <<7907, 7907>>, <<7909, 7909>>, <<7911, 7911>>, <<7913, 7913>>,
  <<7915, 7915>>, <<7917, 7917>>, <<7919, 7919>>, <<7921, 7921>>, <<7923, 7923>>,
  <<7925, 7925>>, <<7927, 7927>>, <<7929, 7929>>, <<7931, 7931>>, <<7933, 7933>>,
  <<7935, 7943>>, <<7952, 7957>>, <<7968, 7975>>, <<7984, 7991>>, <<8000, 8005>>,
  <<8016, 8023>>, <<8032, 8039>>, <<8048, 8061>>, <<8064, 8071>>, <<8080, 8087>>,
  <<8096, 8103>>, <<8112, 8116>>, <<8118, 8119>>, <<8126, 8126>>, <<8130, 8132>>,
  <<8134, 8135>>, <<8144, 8147>>, <<8150, 8151>>, <<8160, 8167>>, <<8178, 8180>>,
  <<8182, 8183>>, <<8305, 8305>>, <<8319, 8319>>, <<8336, 8348>>, <<8458, 8458>>,
  <<8462, 8463>>, <<8467, 8467>>, <<8495, 8495>>, <<8500, 8500>>, <<8505, 8505>>,
  <<8508, 8509>>, <<8518, 8521>>, <<8526, 8526>>, <<8560, 8575>>, <<8580, 8580>>,
  <<9424, 9449>>, <<11312, 11359>>, <<11361, 11361>>, <<11365, 11366>>,
  <<11368, 11368>>, <<11370, 11370>>, <<11372, 11372>>, <<11377, 11377>>,
  <<11379, 11380>>, <<11382, 11389>>, <<11393, 11393>>, <<11395, 11395>>,
  <<11397, 11397>>, <<11399, 11399>>, <<11401, 11401>>, <<11403, 11403>>,
  <<11405, 11405>>, <<11407, 11407>>, <<11409, 11409>>, <<11411, 11411>>,
  <<11413, 11413>>, <<11415, 11415>>, <<11417, 11417>>, <<11419, 11419>>,
  <<11421, 11421>>, <<11423, 11423>>, <<11425, 11425>>, <<11427, 11427>>,
  <<11429, 11429>>, <<11431, 11431>>, <<11433, 11433>>, <<11435, 11435>>,
  <<11437, 11437>>, <<11439, 11439>>, <<11441, 11441>>, <<11443, 11443>>,
  <<11445, 11445>>, <<11447, 11447>>, <<11449, 11449>>, <<11451, 11451>>,
  <<11453, 11453>>, <<11455, 11455>>, <<11457, 11457>>, <<11459, 11459>>,
  <<11461, 11461>>, <<11463, 11463>>, <<11465, 11465>>, <<11467, 11467>>,
  <<11469, 11469>>, <<11471, 11471>>, <<11473, 11473>>, <<11475, 11475>>,
  <<11477, 11477>>, <<11479, 11479>>, <<11481, 11481>>, <<11483, 11483>>,
  <<11485, 11485>>, <<11487, 11487>>, <<11489, 11489>>, <<11491, 11492>>,
  <<11500, 11500>>, <<11502, 11502>>, <<11507, 11507>>, <<11520, 11557>>,
  <<11559, 11559>>, <<11565, 11565>>, <<42561, 42561>>, <<42563, 42563>>,
  <<42565, 42565>>, <<42567, 42567>>, <<42569, 42569>>, <<42571, 42571>>,
  <<42573, 42573>>, <<42575, 42575>>, <<42577, 42577>>, <<42579, 42579>>,
  <<42581, 42581>>, <<42583, 42583>>, <<42585, 42585>>, <<42587, 42587>>,
  <<42589, 42589>>, <<42591, 42591>>, <<42593, 42593>>, <<42595, 42595>>,
  <<42597, 42597>>, <<42599, 42599>>, <<42601, 42601>>, <<42603, 42603>>,
  <<42605, 42605>>, <<42625, 42625>>, <<42627, 42627>>, <<42629, 42629>>,
  <<42631, 42631>>, <<42633, 42633>>, <<42635, 42635>>, <<42637, 42637>>,
  <<42639, 42639>>, <<42641, 42641>>, <<42643, 42643>>, <<42645, 42645>>,
  <<42647, 42647>>, <<42649, 42649>>, <<42651, 42653>>, <<42787, 42787>>,
  <<42789, 42789>>, <<42791, 42791>>, <<42793, 42793>>, <<42795, 42795>>,
  <<42797, 42797>>, <<42799, 42801>>, <<42803, 42803>>, <<42805, 42805>>,
  <<42807, 42807>>, <<42809, 42809>>, <<42811, 42811>>, <<42813, 42813>>,
  <<42815, 42815>>, <<42817, 42817>>, <<42819, 42819>>, <<42821, 42821>>,
  <<42823, 42823>>, <<42825, 42825>>, <<42827, 42827>>, <<42829, 42829>>,
  <<42831, 42831>>, <<42833, 42833>>, <<42835, 42835>>, <<42837, 42837>>,
  <<42839, 42839>>, <<42841, 42841>>, <<42843, 42843>>, <<42845, 42845>>,
  <<42847, 42847>>, <<42849, 42849>>, <<42851, 42851>>, <<42853, 42853>>,
  <<42855, 42855>>, <<42857, 42857>>, <<42859, 42859>>, <<42861, 42861>>,
  <<42863, 42872>>, <<42874, 42874>>, <<42876, 42876>>, <<42879, 42879>>,
  <<42881, 42881>>, <<42883, 42883>>, <<42885, 42885>>, <<42887, 42887>>,
  <<42892, 42892>>, <<42894, 42894>>, <<42897, 42897>>, <<42899, 42901>>,
  <<42903, 42903>>, <<42905, 42905>>, <<42907, 42907>>, <<42909, 42909>>,
  <<42911, 42911>>, <<42913, 42913>>, <<42915, 42915>>, <<42917, 42917>>,
  <<42919, 42919>>, <<42921, 42921>>, <<42927, 42927>>, <<42933, 42933>>,
  <<42935, 42935>>, <<42937, 42937>>, <<42939, 42939>>, <<42941, 42941>>,
  <<42943, 42943>>, <<42945, 42945>>, <<42947, 42947>>, <<42952, 42952>>,
  <<42954, 42954>>, <<42961, 42961>>, <<42963, 42963>>, <<42965, 42965>>,
  <<42967, 42967>>, <<42969, 42969>>, <<42998, 42998>>, <<43000, 43002>>,
  <<43824, 43866>>, <<43868, 43880>>, <<43888, 43967>>, <<64256, 64262>>,
  <<64275, 64279>>, <<65345, 65370>>, <<66600, 66639>>, <<66776, 66811>>,
  <<66967, 66977>>, <<66979, 66993>>, <<66995, 67001>>, <<67003, 67004>>,
  <<67456, 67456>>, <<67459, 67461>>, <<67463, 67504>>, <<67506, 67514>>,
  <<68800, 68850>>, <<71872, 71903>>, <<93792, 93823>>, <<119834, 119859>>,
  <<119886, 119892>>, <<119894, 119911>>, <<119938, 119963>>, <<119990, 119993>>,
  <<119995, 119995>>, <<119997, 120003>>, <<120005, 120015>>, <<120042, 120067>>,
  <<120094, 120119>>, <<120146, 120171>>, <<120198, 120223>>, <<120250, 120275>>,
  <<120302, 120327>>, <<120354, 120379>>, <<120406, 120431>>, <<120458, 120485>>,
  <<120514, 120538>>, <<120540, 120545>>, <<120572, 120596>>, <<120598, 120603>>,
  <<120630, 120654>>, <<120656, 120661>>, <<120688, 120712>>, <<120714, 120719>>,
  <<120746, 120770>>, <<120772, 120777>>, <<120779, 120779>>, <<122624, 122633>>,
  <<122635, 122654>>, <<125218, 125251>>>>

\* str.islower() on a one-character string
IsLower(c) == \E i \in 1..Len(LowerRanges) : LowerRanges[i][1] <= c /\ c <= LowerRanges[i][2]

\* "sep".join(segs)
RECURSIVE Join(_, _)
Join(segs, sep) ==
  IF segs = <<>> THEN <<>>
  ELSE IF Len(segs) = 1 THEN Head(segs)
  ELSE Head(segs) \o <<sep>> \o Join(Tail(segs), sep)

\* str.split(sep): Python keeps empty fields
RECURSIVE SplitAux(_, _, _)
SplitAux(s, sep, cur) ==
  IF s = <<>> THEN <<cur>>
  ELSE IF Head(s) = sep THEN <<cur>> \o SplitAux(Tail(s), sep, <<>>)
  ELSE SplitAux(Tail(s), sep, Append(cur, Head(s)))
Split(s, sep) == SplitAux(s, sep, <<>>)

\* Python str comparison: lexicographic on code points
RECURSIVE StrLess(_, _)
StrLess(a, b) ==
  IF b = <<>> THEN FALSE
  ELSE IF a = <<>> THEN TRUE
  ELSE IF Head(a) < Head(b) THEN TRUE
  ELSE IF Head(a) > Head(b) THEN FALSE
  ELSE StrLess(Tail(a), Tail(b))

\* PurePosixPath.__lt__: lexicographic comparison of the lists of parts
RECURSIVE PathLess(_, _)
PathLess(a, b) ==
  IF b = <<>> THEN FALSE
  ELSE IF a = <<>> THEN TRUE
  ELSE IF StrLess(Head(a), Head(b)) THEN TRUE
  ELSE IF StrLess(Head(b), Head(a)) THEN FALSE
  ELSE PathLess(Tail(a), Tail(b))

\* sorted(seq) with PathLess (stable insertion sort)
RECURSIVE InsertSorted(_, _)
InsertSorted(x, s) ==
  IF s = <<>> THEN <<x>>
  ELSE IF PathLess(x, Head(s)) THEN <<x>> \o s
  ELSE <<Head(s)>> \o InsertSorted(x, Tail(s))
RECURSIVE SortPaths(_)
SortPaths(s) ==
  IF s = <<>> THEN <<>> ELSE InsertSorted(Head(s), SortPaths(Tail(s)))

Extend(f, k, v) == [x \in DOMAIN f \cup {k} |-> IF x = k THEN v ELSE f[x]]

Front(s) == SubSeq(s, 1, Len(s) - 1)

SeqRange(s) == {s[i] : i \in 1..Len(s)}

Perms(S) == {p \in [1..Cardinality(S) -> S] : SeqRange(p) = S}

\* ---------------------------------------------------------------------------
\* Task tree (Task.create). A task is identified by its segment path from the
\* unnamed root (the root is <<>>). tasks[p] = [variant, source];
\* kids[p] = child names in dict insertion order; writes[p] counts the
\* assignments task.source = file made for p.
\* ---------------------------------------------------------------------------
NoSource == <<>>
EmptyTree == [tasks |-> [p \in {<<>>} |-> [variant |-> "Root", source |-> NoSource]],
              kids |-> [p \in {<<>>} |-> <<>>],
              writes |-> [p \in {<<>>} |-> 0]]

\* Task.__init__ for a new ModuleTask/ClassTask under `ctx`
NewTask(tree, ctx, name) ==
  LET p == Append(ctx, name)
      v == IF IsLower(name[1]) THEN "Module" ELSE "Class"
  IN [tasks |-> Extend(tree.tasks, p, [variant |-> v, source |-> NoSource]),
      kids |-> Extend([tree.kids EXCEPT ![ctx] = Append(@, name)], p, <<>>),
      writes |-> Extend(tree.writes, p, 0)]

\* Task.create.resolve
RECURSIVE Resolve(_, _, _)
Resolve(tree, ctx, path) ==
  LET name == Head(path)
      p == Append(ctx, name)
      t2 == IF p \in DOMAIN tree.tasks THEN tree ELSE NewTask(tree, ctx, name)
  IN IF Len(path) = 1 THEN [tree |-> t2, task |-> p]
     ELSE Resolve(t2, p, Tail(path))

\* one iteration of the loop in Task.create
IndexFile(tree, file) ==
  LET fname == file[Len(file)]
      parts == Split(fname, Dot)
      segments == SubSeq(parts, 1, Len(parts) - 1)
      r == Resolve(tree, <<>>, segments)
  IN [tasks |-> [r.tree.tasks EXCEPT ![r.task].source = file],
      kids |-> r.tree.kids,
      writes |-> [r.tree.writes EXCEPT ![r.task] = @ + 1]]

RECURSIVE IndexAll(_, _)
IndexAll(tree, files) ==
  IF files = <<>> THEN tree ELSE IndexAll(IndexFile(tree, Head(files)), Tail(files))

\* Task.create without sorting the files found by rglob
CreateTreeUnsorted(enum) == IndexAll(EmptyTree, enum)

\* Task.create(src_dir): `enum` is the order src_dir.rglob(pattern) yields
CreateTree(enum) == IndexAll(EmptyTree, SortPaths(enum))

ModuleTasks(tree) == {p \in DOMAIN tree.tasks : tree.tasks[p].variant = "Module"}
ClassTasks(tree) == {p \in DOMAIN tree.tasks : tree.tasks[p].variant = "Class"}
Children(tree, p) == [i \in 1..Len(tree.kids[p]) |-> Append(p, tree.kids[p][i])]
Edges(tree) == UNION {{<<p, Append(p, n)>> : n \in SeqRange(tree.kids[p])} : p \in DOMAIN tree.kids}

\* Task.ancestors: the chain of parents, outermost (the unnamed root) first
Ancestors(p) == [i \in 1..Len(p) |-> SubSeq(p, 1, i - 1)]

\* Task.__bool__ (always True, also for the unnamed root)
TaskBool(p) == TRUE

\* Task.full_name: names of the named ancestors and of the task, dot-joined
FullName(p) == Join(p, Dot)

\* ModuleTask.target_path(dest_dir) as the list of path parts
TargetPath(tree, p) ==
  LET anc == Ancestors(p)
      top_level == ~(\E i \in 1..Len(anc) : TaskBool(anc[i]))
      has_submodule == \E c \in SeqRange(Children(tree, p)) : tree.tasks[c].variant = "Module"
      full == Split(FullName(p), Dot)
  IN IF top_level \/ has_submodule
       THEN <<Str_out>> \o full \o <<Str_init \o <<Dot>> \o Str_pyi>>
       ELSE <<Str_out>> \o SubSeq(full, 1, Len(full) - 1) \o <<p[Len(p)] \o <<Dot>> \o Str_pyi>>

\* ---------------------------------------------------------------------------
\* Create specification: the fragment files found under src_dir, two
\* filesystem enumeration orders of them, and a Task tree built from each.
\* ---------------------------------------------------------------------------
MaxFiles == 3
FileUniverse == {<<Str_d1, Str_m \o <<Dot>> \o Str_rst>>,
                 <<Str_d2, Str_m \o <<Dot>> \o Str_rst>>,
                 <<Str_m \o <<Dot>> \o Str_A \o <<Dot>> \o Str_rst>>,
                 <<Str_m \o <<Dot>> \o Str_s \o <<Dot>> \o Str_rst>>,
                 <<Str_t \o <<Dot>> \o Str_rst>>,
                 <<Str_eacute \o <<Dot>> \o Str_rst>>}
NoTree == [tasks |-> <<>>, kids |-> <<>>, writes |-> <<>>]

VARIABLES files, enum1, enum2, tree1, tree2
VARIABLES rfiles, flags, rtree, order, pos, phase, parsed, doctree, heap, nextId,
          lateKids, out, pass, changedFull, changedSingle, cur, singleUsed

cvars == <<files, enum1, enum2, tree1, tree2>>
rvars == <<rfiles, flags, rtree, order, pos, phase, parsed, doctree, heap, nextId,
           lateKids, out, pass, changedFull, changedSingle, cur, singleUsed>>
VARIABLES func, mctx, sig
svars == <<func, mctx, sig>>
vars == <<cvars, rvars, svars>>

NoFunc == [name |-> "", type |-> <<>>, scope |-> "Module", args |-> <<>>]
NoModule == [name |-> <<>>, classes |-> {}]
SIdle == func = NoFunc /\ mctx = NoModule /\ sig = ""

RIdle ==
  /\ rfiles = {} /\ flags = <<>> /\ rtree = NoTree /\ order = <<>> /\ pos = 0
  /\ phase = "idle" /\ parsed = {} /\ doctree = <<>> /\ heap = <<>> /\ nextId = 1
  /\ lateKids = {} /\ out = <<>> /\ pass = 1 /\ changedFull = FALSE
  /\ changedSingle = FALSE /\ cur = <<>> /\ singleUsed = FALSE

CInit ==
  /\ files \in {S \in SUBSET FileUniverse : Cardinality(S) <= MaxFiles}
  /\ enum1 \in Perms(files)
  /\ enum2 \in Perms(files)
  /\ tree1 = NoTree
  /\ tree2 = NoTree
  /\ RIdle
  /\ SIdle

Create1 ==
  /\ tree1 = NoTree
  /\ tree1' = CreateTree(enum1)
  /\ UNCHANGED <<files, enum1, enum2, tree2, rvars, svars>>

Create2 ==
  /\ tree2 = NoTree
  /\ tree2' = CreateTree(enum2)
  /\ UNCHANGED <<files, enum1, enum2, tree1, rvars, svars>>

CNext == Create1 \/ Create2

CSpec == CInit /\ [][CNext]_vars

\* ---------------------------------------------------------------------------
\* Document nodes. The fragment parser and the node classes of
\* bpystubgen.nodes are outside src/; their behaviour is taken from the spec.
\* A parsed fragment is a template [kind, name, kids]; nodes live in a heap
\* id -> [kind, name, kids, par, op] (op: the parent given at creation).
\* ---------------------------------------------------------------------------
Node(k, n, ks) == [kind |-> k, name |-> n, type |-> <<>>, kids |-> ks]
\* a Function node with a return type
FuncT(n, ty) == [kind |-> "Function", name |-> n, type |-> ty, kids |-> <<>>]

\* the qualified type a typed module function returns (a foreign module "o")
Str_foreign == <<111, 46, 88>>

\* publish_doctree of a module fragment: a document holding one Module node
\* (named by the directive with the full dotted name), an optional leading
\* docstring and a function, untyped or returning the foreign type "o.X"
ModuleFileTmpl(p, fl) ==
  Node("Document", <<>>,
       <<Node("Module", FullName(p),
              (IF fl.a THEN <<Node("Docstring", <<>>, <<>>)>> ELSE <<>>)
              \o <<FuncT(Str_f, IF fl.b THEN Str_foreign ELSE <<>>)>>)>>)

\* publish_doctree of a class fragment: a document holding one Class node,
\* possibly with a nested class; its method is untyped or returns the class
\* by its qualified name ("m.A")
ClassFileTmpl(p, fl) ==
  Node("Document", <<>>,
       <<Node("Class", p[Len(p)],
              <<FuncT(Str_g, IF fl.b THEN FullName(p) ELSE <<>>)>>
              \o (IF fl.a THEN <<Node("Class", Str_N, <<Node("Function", Str_g, <<>>)>>)>>
                  ELSE <<>>))>>)

\* new_document(""); doctree += Module(name=self.name)
SynthModuleTmpl(p) == Node("Document", <<>>, <<Node("Module", p[Len(p)], <<>>)>>)

RECURSIVE TSize(_), SumSizes(_)
TSize(t) == 1 + SumSizes(t.kids)
SumSizes(ts) == IF ts = <<>> THEN 0 ELSE TSize(Head(ts)) + SumSizes(Tail(ts))

RECURSIVE MergeFns(_)
MergeFns(fs) == IF fs = <<>> THEN <<>> ELSE Head(fs) @@ MergeFns(Tail(fs))

\* creating the nodes of a template, preorder ids from b, under parent par
RECURSIVE Alloc(_, _, _)
Alloc(t, b, par) ==
  LET kidIds == [i \in 1..Len(t.kids) |-> b + 1 + SumSizes(SubSeq(t.kids, 1, i - 1))]
  IN (b :> [kind |-> t.kind, name |-> t.name, type |-> t.type, mod |-> <<>>, types |-> {},
            kids |-> kidIds, par |-> par, op |-> par])
     @@ MergeFns([i \in 1..Len(t.kids) |-> Alloc(t.kids[i], kidIds[i], b)])

\* Node.traverse(cls): preorder list of the nodes of a kind, the node included
RECURSIVE Traverse(_, _, _), TraverseSeq(_, _, _)
Traverse(h, n, k) == (IF h[n].kind = k THEN <<n>> ELSE <<>>) \o TraverseSeq(h, h[n].kids, k)
TraverseSeq(h, ns, k) == IF ns = <<>> THEN <<>> ELSE Traverse(h, Head(ns), k) \o TraverseSeq(h, Tail(ns), k)

\* list.remove(x)
RECURSIVE RemoveFirst(_, _)
RemoveFirst(s, x) ==
  IF s = <<>> THEN s ELSE IF Head(s) = x THEN Tail(s) ELSE <<Head(s)>> \o RemoveFirst(Tail(s), x)

\* list.insert(i, x)
InsertAt(s, i, x) == SubSeq(s, 1, i) \o <<x>> \o SubSeq(s, i + 1, Len(s))

\* node.parent.remove(node); module += node
MoveNode(h, n, m) ==
  LET q == h[n].par
  IN [h EXCEPT ![q].kids = RemoveFirst(@, n), ![m].kids = Append(@, n), ![n].par = m]

RECURSIVE MoveAll(_, _, _)
MoveAll(h, ns, m) == IF ns = <<>> THEN h ELSE MoveAll(MoveNode(h, Head(ns), m), Tail(ns), m)

\* structural value of a node tree (what the Emitter writes)
RECURSIVE Ser(_, _)
Ser(h, n) == [kind |-> h[n].kind, name |-> h[n].name, type |-> h[n].type,
              mod |-> h[n].mod, types |-> h[n].types,
              kids |-> [i \in 1..Len(h[n].kids) |-> Ser(h, h[n].kids[i])]]

\* Module.sort_members (spec 4.4: a stable kind-then-name order; the
\* docstring stays first)
KindRank(k) == CASE k = "Docstring" -> 0 [] k = "Import" -> 1
                 [] k = "Class" -> 2 [] OTHER -> 3
MemberLess(h, a, b) ==
  \/ KindRank(h[a].kind) < KindRank(h[b].kind)
  \/ KindRank(h[a].kind) = KindRank(h[b].kind) /\ StrLess(h[a].name, h[b].name)
RECURSIVE InsertMember(_, _, _)
InsertMember(h, x, s) ==
  IF s = <<>> THEN <<x>>
  ELSE IF ~MemberLess(h, Head(s), x) THEN <<x>> \o s
  ELSE <<Head(s)>> \o InsertMember(h, x, Tail(s))
RECURSIVE SortIds(_, _)
SortIds(h, s) == IF s = <<>> THEN <<>> ELSE InsertMember(h, Head(s), SortIds(h, Tail(s)))
SortMembers(h, m) == [h EXCEPT ![m].kids = SortIds(h, @)]

\* Module.docstring: the module's Docstring child, if any
HasDocstring(h, m) == \E i \in 1..Len(h[m].kids) : h[h[m].kids[i]].kind = "Docstring"

\* index = 1 if module.docstring else 0
ImportIndexZero(h, m) == 0
ImportIndex(h, m) == IF HasDocstring(h, m) THEN 1 ELSE 0

\* Module.localise_name: drop the "<module name>." prefix
LocaliseName(name, modName) ==
  LET pre == modName \o <<Dot>>
  IN IF Len(name) > Len(pre) /\ SubSeq(name, 1, Len(pre)) = pre
       THEN SubSeq(name, Len(pre) + 1, Len(name)) ELSE name

\* Module.import_types (spec 4.4). Localisation: a type "<module>.<C>" with C
\* a class of the module becomes "C". Import synthesis: every other
\* qualified type whose module prefix differs from the module's name is
\* required; one Import per module prefix (sorted), holding the set of
\* imported names, appended to the module's children.
TypePrefix(t) == Join(Front(Split(t, Dot)), Dot)
TypeLeaf(t) == LET parts == Split(t, Dot) IN parts[Len(parts)]
Qualified(t) == Len(Split(t, Dot)) >= 2
LocalClassNames(h, m) == {h[c].name : c \in SeqRange(Traverse(h, m, "Class"))}
IsLocalRef(h, m, t) == Qualified(t) /\ TypePrefix(t) = h[m].name /\ TypeLeaf(t) \in LocalClassNames(h, m)

\* the localisation pass over the module's functions
LocaliseTypes(h, m) ==
  LET fns == SeqRange(Traverse(h, m, "Function"))
  IN [n \in DOMAIN h |-> IF n \in fns /\ IsLocalRef(h, m, h[n].type)
                          THEN [h[n] EXCEPT !.type = TypeLeaf(h[n].type)] ELSE h[n]]

ForeignTypes(h, m) ==
  {h[n].type : n \in {f \in SeqRange(Traverse(h, m, "Function")) :
                        Qualified(h[f].type) /\ TypePrefix(h[f].type) # h[m].name}}

RECURSIVE SortedStrs(_)
SortedStrs(S) ==
  IF S = {} THEN <<>>
  ELSE LET x == CHOOSE x \in S : \A y \in S : ~StrLess(y, x) IN <<x>> \o SortedStrs(S \ {x})

RECURSIVE AddTypeImports(_, _, _, _, _)
AddTypeImports(h, nx, m, prefixes, ts) ==
  IF prefixes = <<>> THEN [heap |-> h, next |-> nx]
  ELSE LET pre == Head(prefixes)
           imp == [kind |-> "Import", name |-> pre, type |-> <<>>, mod |-> pre,
                   types |-> {TypeLeaf(t) : t \in {t \in ts : TypePrefix(t) = pre}},
                   kids |-> <<>>, par |-> m, op |-> m]
       IN AddTypeImports([(h @@ (nx :> imp)) EXCEPT ![m].kids = Append(@, nx)], nx + 1, m,
                         Tail(prefixes), ts)

ImportTypesOf(h, nx, m, ts) == AddTypeImports(h, nx, m, SortedStrs({TypePrefix(t) : t \in ts}), ts)

ImportTypes(h, nx, m) == ImportTypesOf(LocaliseTypes(h, m), nx, m, ForeignTypes(LocaliseTypes(h, m), m))

\* ---------------------------------------------------------------------------
\* Parsing and merging (ParserTask.parse, ModuleTask.parse). A world w is
\* [heap, next, doctree]; doctree[p] = 0 stands for None.
\* ---------------------------------------------------------------------------
\* publish_doctree of the task's source file
FragmentTmpl(tree, fl, p) ==
  IF tree.tasks[p].variant = "Module" THEN ModuleFileTmpl(p, fl[tree.tasks[p].source])
  ELSE ClassFileTmpl(p, fl[tree.tasks[p].source])

\* doctree = publish_doctree(...) / new_document(...): allocate a parsed tree
AddTree(w, p, t) ==
  [heap |-> w.heap @@ Alloc(t, w.next, 0),
   next |-> w.next + TSize(t),
   doctree |-> [w.doctree EXCEPT ![p] = w.next]]

\* ParserTask.parse if it kept a doctree it had already built
ParserParseCached(w, tree, fl, p) ==
  IF w.doctree[p] # 0 THEN w
  ELSE IF tree.tasks[p].source # NoSource
    THEN AddTree(w, p, FragmentTmpl(tree, fl, p))
    ELSE [w EXCEPT !.doctree[p] = 0]

\* ParserTask.parse
ParserParse(w, tree, fl, p) ==
  IF tree.tasks[p].source # NoSource
    THEN AddTree(w, p, FragmentTmpl(tree, fl, p))
    ELSE [w EXCEPT !.doctree[p] = 0]

\* the class loop if it skipped children whose doctree is None
RECURSIVE MergeClassesSkip(_, _, _, _)
MergeClassesSkip(h, dt, cs, m) ==
  IF cs = <<>> THEN [ok |-> TRUE, heap |-> h]
  ELSE IF dt[Head(cs)] = 0 THEN MergeClassesSkip(h, dt, Tail(cs), m)
  ELSE MergeClassesSkip(MoveAll(h, Traverse(h, dt[Head(cs)], "Class"), m), dt, Tail(cs), m)

\* the loop over class children in ModuleTask.parse; fails on a None doctree
RECURSIVE MergeClasses(_, _, _, _)
MergeClasses(h, dt, cs, m) ==
  IF cs = <<>> THEN [ok |-> TRUE, heap |-> h]
  ELSE IF dt[Head(cs)] = 0 THEN [ok |-> FALSE, heap |-> h]
  ELSE MergeClasses(MoveAll(h, Traverse(h, dt[Head(cs)], "Class"), m), dt, Tail(cs), m)

\* module.insert(index, Import(...)) for each Module node of a submodule doctree
RECURSIVE InsertImportsOf(_, _, _, _, _)
InsertImportsOf(h, nx, ns, m, idx) ==
  IF ns = <<>> THEN [heap |-> h, next |-> nx]
  ELSE LET imp == [kind |-> "Import", name |-> LocaliseName(h[Head(ns)].name, h[m].name),
                   type |-> <<>>, mod |-> <<Dot>>,
                   types |-> {LocaliseName(h[Head(ns)].name, h[m].name)},
                   kids |-> <<>>, par |-> m, op |-> m]
           h2 == [(h @@ (nx :> imp)) EXCEPT ![m].kids = InsertAt(@, idx, nx)]
       IN InsertImportsOf(h2, nx + 1, Tail(ns), m, idx)

\* the loop over submodule children in ModuleTask.parse
RECURSIVE InsertSubmodules(_, _, _, _, _, _)
InsertSubmodules(h, nx, dt, subs, m, idx) ==
  IF subs = <<>> THEN [ok |-> TRUE, heap |-> h, next |-> nx]
  ELSE IF dt[Head(subs)] = 0 THEN [ok |-> FALSE, heap |-> h, next |-> nx]
  ELSE LET r == InsertImportsOf(h, nx, Traverse(h, dt[Head(subs)], "Module"), m, idx)
       IN InsertSubmodules(r.heap, r.next, dt, Tail(subs), m, idx)

\* `if not doctree: doctree = new_document(""); doctree += Module(name=self.name)`
EnsureModuleDoc(w1, p) == IF w1.doctree[p] # 0 THEN w1 ELSE AddTree(w1, p, SynthModuleTmpl(p))

ClassSeq(tree, p) == SelectSeq(Children(tree, p), LAMBDA c : tree.tasks[c].variant = "Class")
ModuleSeq(tree, p) == SelectSeq(Children(tree, p), LAMBDA c : tree.tasks[c].variant = "Module")

\* after the submodule loop: `return doctree`
FinishParse(w2, r2) == [ok |-> r2.ok, heap |-> r2.heap, next |-> r2.next, doctree |-> w2.doctree]

\* index = 1 if module.docstring else 0; the submodule loop
ImportStage(w2, tree, p, module, h3, nx) ==
  FinishParse(w2, InsertSubmodules(h3, nx, w2.doctree, ModuleSeq(tree, p), module,
                                   ImportIndex(h3, module)))

\* module.sort_members()
SortMembersStage(w2, tree, p, module, r) ==
  ImportStage(w2, tree, p, module, SortMembers(r.heap, module), r.next)

\* module.import_types(); module.sort_members(); then the submodule loop
SortStage(w2, tree, p, module, r1) ==
  IF ~r1.ok THEN [ok |-> FALSE, heap |-> r1.heap, next |-> w2.next, doctree |-> w2.doctree]
  ELSE SortMembersStage(w2, tree, p, module, ImportTypes(r1.heap, w2.next, module))

\* module = next(iter(doctree.traverse(Module))); the class loop
MergeStage(w2, tree, p, module) ==
  SortStage(w2, tree, p, module, MergeClasses(w2.heap, w2.doctree, ClassSeq(tree, p), module))

\* ModuleTask.parse; returns the new world and whether it raised
MergeStageOf(w2, tree, p) == MergeStage(w2, tree, p, Head(Traverse(w2.heap, w2.doctree[p], "Module")))

ModuleParse(w, tree, fl, p) ==
  MergeStageOf(EnsureModuleDoc(ParserParse(w, tree, fl, p), p), tree, p)

\* the parse of one task, dispatched on its class
TaskParse(w, tree, fl, p) ==
  IF tree.tasks[p].variant = "Module" THEN ModuleParse(w, tree, fl, p)
  ELSE [ok |-> TRUE] @@ ParserParse(w, tree, fl, p)

\* Task.__iter__ if it yielded each child before its subtree
RECURSIVE IterPre(_, _), IterPreSeq(_, _)
IterPre(tree, p) == IterPreSeq(tree, Children(tree, p))
IterPreSeq(tree, cs) ==
  IF cs = <<>> THEN <<>> ELSE <<Head(cs)>> \o IterPre(tree, Head(cs)) \o IterPreSeq(tree, Tail(cs))

\* Task.__iter__: every descendant, each child's subtree before the child
RECURSIVE Iter(_, _), IterSeq(_, _)
Iter(tree, p) == IterSeq(tree, Children(tree, p))
IterSeq(tree, cs) ==
  IF cs = <<>> THEN <<>> ELSE Iter(tree, Head(cs)) \o <<Head(cs)>> \o IterSeq(tree, Tail(cs))

\* ---------------------------------------------------------------------------
\* Run specification: index the fragment files (Task.create), then parse
\* every task in the order Task.__iter__ yields it, then generate every
\* module task; afterwards the run may be repeated, or one module task may
\* be parsed and generated again.
\* ---------------------------------------------------------------------------
RMaxFiles == 3
RFileUniverse == {<<Str_m \o <<Dot>> \o Str_rst>>,
                  <<Str_m \o <<Dot>> \o Str_s \o <<Dot>> \o Str_rst>>,
                  <<Str_m \o <<Dot>> \o Str_t \o <<Dot>> \o Str_rst>>,
                  <<Str_m \o <<Dot>> \o Str_A \o <<Dot>> \o Str_rst>>,
                  <<Str_m \o <<Dot>> \o Str_B \o <<Dot>> \o Str_rst>>,
                  <<Str_m \o <<Dot>> \o Str_D \o <<Dot>> \o Str_x \o <<Dot>> \o Str_rst>>}

\* ModuleTask.generate: the py.typed marker and the stub file
Generate(o, tree, h, dt, p) ==
  LET tgt == TargetPath(tree, p)
      mk == Front(tgt) \o <<Str_pytyped>>
      content == Ser(h, dt[p])
  IN [x \in DOMAIN o \cup {tgt, mk} |-> IF x = tgt THEN content
                                          ELSE IF x = mk THEN <<>> ELSE o[x]]

Rewrites(o, tree, h, dt, p) ==
  LET o2 == Generate(o, tree, h, dt, p)
  IN \E x \in DOMAIN o : o[x] # o2[x]

CIdle ==
  /\ files = {} /\ enum1 = <<>> /\ enum2 = <<>> /\ tree1 = NoTree /\ tree2 = NoTree

RInit ==
  /\ CIdle
  /\ SIdle
  /\ rfiles \in {S \in SUBSET RFileUniverse : S # {} /\ Cardinality(S) <= RMaxFiles}
  /\ flags \in [rfiles -> [a : BOOLEAN, b : BOOLEAN]]
  /\ rtree = NoTree /\ order = <<>> /\ pos = 0 /\ phase = "index" /\ parsed = {}
  /\ doctree = <<>> /\ heap = <<>> /\ nextId = 1 /\ lateKids = {} /\ out = <<>>
  /\ pass = 1 /\ changedFull = FALSE /\ changedSingle = FALSE /\ cur = <<>>
  /\ singleUsed = FALSE

World == [heap |-> heap, next |-> nextId, doctree |-> doctree]

\* root = Task.create(src_dir)
Index ==
  /\ phase = "index"
  /\ LET t == CreateTree(CHOOSE e \in Perms(rfiles) : TRUE)
     IN /\ rtree' = t
        /\ order' = Iter(t, <<>>)
        /\ doctree' = [p \in DOMAIN t.tasks \ {<<>>} |-> 0]
  /\ phase' = "parse" /\ pos' = 1
  /\ UNCHANGED <<cvars, svars, rfiles, flags, parsed, heap, nextId, lateKids, out, pass,
                 changedFull, changedSingle, cur, singleUsed>>

\* the state after task p's parse returned (or raised) with result r
ApplyParse(r, p) ==
  /\ heap' = r.heap /\ nextId' = r.next /\ doctree' = r.doctree
  /\ parsed' = parsed \cup {p}
  /\ lateKids' = lateKids \cup
       (IF rtree.tasks[p].variant = "Module" /\ ~(SeqRange(Children(rtree, p)) \subseteq parsed)
          THEN {p} ELSE {})
  /\ IF ~r.ok THEN phase' = "error" /\ pos' = pos
     ELSE IF pos = Len(order) THEN phase' = "generate" /\ pos' = 1
     ELSE phase' = "parse" /\ pos' = pos + 1

\* task.parse(settings, env) for the next task of iter(root)
ParseStep ==
  /\ phase = "parse"
  /\ ApplyParse(TaskParse(World, rtree, flags, order[pos]), order[pos])
  /\ UNCHANGED <<cvars, svars, rfiles, flags, rtree, order, out, pass, changedFull,
                 changedSingle, cur, singleUsed>>

\* task.generate(dest_dir, writer) for the next module task of iter(root)
GenerateStep ==
  /\ phase = "generate"
  /\ LET p == order[pos]
         isMod == rtree.tasks[p].variant = "Module"
     IN /\ out' = IF isMod THEN Generate(out, rtree, heap, doctree, p) ELSE out
        /\ changedFull' = (changedFull \/ (isMod /\ pass = 2 /\ Rewrites(out, rtree, heap, doctree, p)))
        /\ IF pos = Len(order) THEN phase' = "done" /\ pos' = pos
           ELSE phase' = "generate" /\ pos' = pos + 1
  /\ UNCHANGED <<cvars, svars, rfiles, flags, rtree, order, parsed, doctree, heap, nextId,
                 lateKids, pass, changedSingle, cur, singleUsed>>

\* running parse and generate over the same tree a second time
RestartRun ==
  /\ phase = "done" /\ pass = 1 /\ ~singleUsed
  /\ pass' = 2 /\ phase' = "parse" /\ pos' = 1 /\ parsed' = {}
  /\ UNCHANGED <<cvars, svars, rfiles, flags, rtree, order, doctree, heap, nextId, lateKids,
                 out, changedFull, changedSingle, cur, singleUsed>>

\* the state after module task p's repeated parse returned with result r
ApplyReparse(r, p) ==
  /\ heap' = r.heap /\ nextId' = r.next /\ doctree' = r.doctree
  /\ cur' = p
  /\ phase' = IF r.ok THEN "regen" ELSE "error"

\* ModuleTask.parse called again on one module task
ReparseModule ==
  /\ phase = "done" /\ ~singleUsed
  /\ \E p \in ModuleTasks(rtree) : ApplyReparse(ModuleParse(World, rtree, flags, p), p)
  /\ UNCHANGED <<cvars, svars, rfiles, flags, rtree, order, pos, parsed, lateKids, out, pass,
                 changedFull, changedSingle, singleUsed>>

\* ModuleTask.generate called again on that module task
RegenerateModule ==
  /\ phase = "regen"
  /\ out' = Generate(out, rtree, heap, doctree, cur)
  /\ changedSingle' = (changedSingle \/ Rewrites(out, rtree, heap, doctree, cur))
  /\ phase' = "done" /\ singleUsed' = TRUE
  /\ UNCHANGED <<cvars, svars, rfiles, flags, rtree, order, pos, parsed, doctree, heap, nextId,
                 lateKids, pass, changedFull, cur>>

RNext == Index \/ ParseStep \/ GenerateStep \/ RestartRun \/ ReparseModule \/ RegenerateModule

RSpec == RInit /\ [][RNext]_vars

\* ---------------------------------------------------------------------------
\* Signature rendering (Function.signature, Argument rendering, type
\* localisation). bpystubgen.nodes is not under src/: this follows spec 4.4 /
\* 4.5 and tests/test_function.py. A type expression is the list of its
\* dotted segments (<<>> = unset); a Function is
\* [name, type, scope, args: Seq([name, type, default])].
\* ---------------------------------------------------------------------------
NoDefault == "<none>"

RECURSIVE JoinStr(_, _)
JoinStr(ss, sep) ==
  IF ss = <<>> THEN "" ELSE IF Len(ss) = 1 THEN Head(ss)
  ELSE Head(ss) \o sep \o JoinStr(Tail(ss), sep)

\* localisation that ignores the module prefix
LocaliseTypeAnyPrefix(t, ctx) ==
  IF Len(t) >= 2 /\ t[Len(t)] \in ctx.classes THEN <<t[Len(t)]>> ELSE t

\* localisation of "<module name>.<Class>" for a class defined in the module
LocaliseType(t, ctx) ==
  IF Len(t) = Len(ctx.name) + 1 /\ ctx.name # <<>>
     /\ SubSeq(t, 1, Len(ctx.name)) = ctx.name /\ t[Len(t)] \in ctx.classes
    THEN <<t[Len(t)]>> ELSE t

\* Function.type rendering: "None" when unset
RenderReturn(t, ctx) == IF t = <<>> THEN "None" ELSE JoinStr(LocaliseType(t, ctx), ".")

\* Argument rendering: "name: type[ = default]", "typing.Any" when untyped
RenderArg(a, ctx) ==
  a.name \o ": " \o (IF a.type = <<>> THEN "typing.Any" ELSE JoinStr(LocaliseType(a.type, ctx), "."))
  \o (IF a.default = NoDefault THEN "" ELSE " = " \o a.default)

\* decorator selection that forgot @classmethod
DecoratorNoClassmethod(scope) ==
  CASE scope = "Static" -> "@staticmethod\n" [] OTHER -> ""

\* FunctionScope: decorator line and implicit first parameter
Decorator(scope) ==
  CASE scope = "Class" -> "@classmethod\n" [] scope = "Static" -> "@staticmethod\n"
    [] OTHER -> ""
ImplicitParams(scope) ==
  CASE scope = "Instance" -> <<"self">> [] scope = "Class" -> <<"cls">> [] OTHER -> <<>>

\* Function.signature
Signature(f, ctx) ==
  Decorator(f.scope) \o "def " \o f.name \o "("
  \o JoinStr(ImplicitParams(f.scope) \o [i \in 1..Len(f.args) |-> RenderArg(f.args[i], ctx)], ", ")
  \o ") -> " \o RenderReturn(f.type, ctx) \o ":"

Scopes == {"Module", "Instance", "Class", "Static"}
SigTypes == {<<>>, <<"str">>, <<"int">>}
ModName == <<"mymodule">>
LocalTypes == {<<"mymodule", "LocalClass1">>, <<"mymodule", "LocalClass2">>,
               <<"other", "ExternalClass">>, <<"other", "LocalClass1">>,
               <<"LocalClass1">>, <<"mymodule", "sub", "LocalClass1">>}
ArgNames == <<"arg1", "arg2", "arg3", "arg4">>
MaxArgs == 2

ArgsOf(types, defaults) ==
  UNION {[1..n -> [name : {""}, type : types, default : defaults]] : n \in 0..MaxArgs}
NameArgs(as) == [i \in 1..Len(as) |-> [as[i] EXCEPT !.name = ArgNames[i]]]

\* Functions outside a module (no localisation) and inside Module "mymodule"
PlainFuncs == {[name |-> "my_func", type |-> t, scope |-> sc, args |-> NameArgs(as)] :
                 t \in SigTypes, sc \in Scopes, as \in ArgsOf(SigTypes, {NoDefault, "None"})}
ModuleFuncs == {[name |-> "my_func", type |-> t, scope |-> "Module", args |-> NameArgs(as)] :
                  t \in LocalTypes \cup {<<>>}, as \in ArgsOf(LocalTypes, {NoDefault})}
ModuleCtxs == {[name |-> ModName, classes |-> cs] : cs \in SUBSET {"LocalClass1", "LocalClass2"}}

SInit ==
  /\ CIdle /\ RIdle
  /\ \/ func \in PlainFuncs /\ mctx = NoModule
     \/ func \in ModuleFuncs /\ mctx \in ModuleCtxs
  /\ sig = ""

\* reading func.signature
RenderSignature ==
  /\ sig = ""
  /\ sig' = Signature(func, mctx)
  /\ UNCHANGED <<cvars, rvars, func, mctx>>

SNext == RenderSignature

SSpec == SInit /\ [][SNext]_vars

\* C8: signature rendering: 'def <name>(<args>) -> <type>:' with 'None' for
\* an unset type; Instance adds 'self', Class adds 'cls' and '@classmethod\n',
\* Static adds '@staticmethod\n', Module adds nothing; each argument renders
\* as 'name: type' ('typing.Any' when untyped) plus ' = <default>' verbatim.
C8ArgText(a) ==
  IF a.default = NoDefault
    THEN a.name \o ": " \o (IF a.type = <<>> THEN "typing.Any" ELSE a.type[1])
    ELSE a.name \o ": " \o (IF a.type = <<>> THEN "typing.Any" ELSE a.type[1]) \o " = " \o a.default
RECURSIVE C8Args(_)
C8Args(as) ==
  IF as = <<>> THEN "" ELSE IF Len(as) = 1 THEN C8ArgText(Head(as))
  ELSE C8ArgText(Head(as)) \o ", " \o C8Args(Tail(as))
C8ArgList(f) == C8Args(f.args)
C8Ret(f) == IF f.type = <<>> THEN "None" ELSE f.type[1]
C8Expected(f) ==
  CASE f.scope = "Module" -> "def " \o f.name \o "(" \o C8ArgList(f) \o ") -> " \o C8Ret(f) \o ":"
    [] f.scope = "Instance" ->
         "def " \o f.name \o "(self" \o (IF f.args = <<>> THEN "" ELSE ", ") \o C8ArgList(f)
         \o ") -> " \o C8Ret(f) \o ":"
    [] f.scope = "Class" ->
         "@classmethod\n" \o "def " \o f.name \o "(cls" \o (IF f.args = <<>> THEN "" ELSE ", ")
         \o C8ArgList(f) \o ") -> " \o C8Ret(f) \o ":"
    [] f.scope = "Static" ->
         "@staticmethod\n" \o "def " \o f.name \o "(" \o C8ArgList(f) \o ") -> " \o C8Ret(f) \o ":"
TestFunc(t, sc, as) == [name |-> "my_func", type |-> t, scope |-> sc, args |-> as]
C8_SignatureRendering ==
  (sig # "" /\ mctx = NoModule) =>
    /\ sig = C8Expected(func)
    /\ func = TestFunc(<<>>, "Module", <<>>) => sig = "def my_func() -> None:"
    /\ func = TestFunc(<<"str">>, "Class", <<>>) => sig = "@classmethod\ndef my_func(cls) -> str:"
    /\ func = TestFunc(<<"str">>, "Instance", <<>>) => sig = "def my_func(self) -> str:"
    /\ func = TestFunc(<<"str">>, "Static", <<>>) => sig = "@staticmethod\ndef my_func() -> str:"
    /\ func = TestFunc(<<"str">>, "Module", <<[name |-> "arg1", type |-> <<"int">>, default |-> NoDefault],
                                             [name |-> "arg2", type |-> <<"str">>, default |-> "None"]>>)
         => sig = "def my_func(arg1: int, arg2: str = None) -> str:"

\* witness: a classmethod with a defaulted argument has been rendered
C8_Witness ==
  /\ sig # "" /\ mctx = NoModule /\ func.scope = "Class"
  /\ \E i \in 1..Len(func.args) : func.args[i].default # NoDefault /\ func.args[i].type = <<>>

\* C9: inside Module M, a type of exactly the form 'M.C' with C a class of M
\* renders as 'C'; every other type renders unchanged.
C9Type(t) ==
  IF Len(t) = 2 /\ t[1] = "mymodule" /\ t[2] \in mctx.classes THEN t[2] ELSE JoinStr(t, ".")
C9ArgText(a) == a.name \o ": " \o (IF a.type = <<>> THEN "typing.Any" ELSE C9Type(a.type))
RECURSIVE C9Args(_)
C9Args(as) ==
  IF as = <<>> THEN "" ELSE IF Len(as) = 1 THEN C9ArgText(Head(as))
  ELSE C9ArgText(Head(as)) \o ", " \o C9Args(Tail(as))
C9Expected(f) ==
  "def " \o f.name \o "("
  \o C9Args(f.args)
  \o ") -> " \o (IF f.type = <<>> THEN "None" ELSE C9Type(f.type)) \o ":"
C9_TypeLocalisation ==
  (sig # "" /\ mctx # NoModule) =>
    /\ sig = C9Expected(func)
    /\ (func = TestFunc(<<"mymodule", "LocalClass1">>, "Module",
                        <<[name |-> "arg1", type |-> <<"mymodule", "LocalClass2">>, default |-> NoDefault],
                          [name |-> "arg2", type |-> <<"other", "ExternalClass">>, default |-> NoDefault]>>)
        /\ mctx.classes = {"LocalClass1", "LocalClass2"})
         => sig = "def my_func(arg1: LocalClass2, arg2: other.ExternalClass) -> LocalClass1:"

\* witness: a local qualified return type and a foreign-prefixed argument
\* type naming a local class have been rendered
C9_Witness ==
  /\ sig # "" /\ mctx # NoModule /\ "LocalClass1" \in mctx.classes
  /\ func.type = <<"mymodule", "LocalClass1">>
  /\ \E i \in 1..Len(func.args) : func.args[i].type = <<"other", "LocalClass1">>

ModuleNode(p) == Head(Traverse(heap, doctree[p], "Module"))
ModChildren(p) == {c \in SeqRange(Children(rtree, p)) : rtree.tasks[c].variant = "Module"}
ClassChildren(p) == {c \in SeqRange(Children(rtree, p)) : rtree.tasks[c].variant = "Class"}

\* C1: parsing the tasks in the order of iter(root), every module task's
\* children (class and module tasks) have all been parsed before the module
\* task's parse reads their doctrees.
C1_ChildrenParsedFirst == lateKids = {}

\* witness: a module task with two child tasks has been parsed
C1_Witness ==
  \E p \in parsed \cap ModuleTasks(rtree) : Len(rtree.kids[p]) >= 2 /\ phase # "error"

\* C4: after ModuleTask.parse only the root Class node of each class child
\* moves: it becomes a child of the Module node and leaves the child's
\* doctree; nested Class nodes stay in their class; no node is in two
\* containers or twice in one.
C4_ClassOwnership ==
  /\ \A n \in DOMAIN heap :
       Cardinality({q \in DOMAIN heap : \E i \in 1..Len(heap[q].kids) : heap[q].kids[i] = n}) <= 1
       /\ heap[n].par # 0 =>
            \A i, j \in 1..Len(heap[heap[n].par].kids) :
              (heap[heap[n].par].kids[i] = n /\ heap[heap[n].par].kids[j] = n) => i = j
  /\ \A n \in DOMAIN heap :
       (heap[n].kind = "Class" /\ heap[n].op # 0 /\ heap[heap[n].op].kind = "Class")
         => heap[n].par = heap[n].op
  /\ \A p \in parsed \cap ModuleTasks(rtree) : \A c \in ClassChildren(p) :
       (phase # "error" /\ doctree[c] # 0) =>
         \A n \in DOMAIN heap :
           (heap[n].op = doctree[c] /\ heap[n].kind = "Class") => heap[heap[n].par].kind = "Module"

\* C5: after ModuleTask.parse the module's children start with the docstring
\* (if any), followed by exactly one submodule Import (module ".") per module
\* child task, contiguous; imports of foreign types come after them.
C5_ImportPlacement ==
  phase # "error" =>
    \A p \in parsed \cap ModuleTasks(rtree) :
      LET ks == heap[ModuleNode(p)].kids
          d == IF HasDocstring(heap, ModuleNode(p)) THEN 1 ELSE 0
          k == Cardinality(ModChildren(p))
      IN /\ Len(ks) >= d + k
         /\ \A i \in 1..d : heap[ks[i]].kind = "Docstring"
         /\ \A i \in d + 1..d + k : heap[ks[i]].kind = "Import" /\ heap[ks[i]].mod = <<Dot>>
         /\ Cardinality({i \in 1..Len(ks) : heap[ks[i]].kind = "Import" /\ heap[ks[i]].mod = <<Dot>>}) = k

\* witness: a module with a docstring and two submodules has been parsed
C5_Witness ==
  /\ phase # "error"
  /\ \E p \in parsed \cap ModuleTasks(rtree) :
       /\ Cardinality(ModChildren(p)) >= 2 /\ HasDocstring(heap, ModuleNode(p))
       /\ \E n \in SeqRange(heap[ModuleNode(p)].kids) : heap[n].kind = "Import" /\ heap[n].mod # <<Dot>>

\* C7 (as stated): running ModuleTask.parse and generate again on unchanged
\* input rewrites every output file with the same content.
C7_Idempotent == ~changedFull /\ ~changedSingle

\* C7 (amended): running the whole parse-then-generate pass again (every
\* task parsed again in iter(root) order) rewrites every output file with the
\* same content.
C7_RerunIdempotent == ~changedFull

\* witness: a second full pass over a tree with a class task has finished
C7_Witness == pass = 2 /\ phase = "done" /\ ClassTasks(rtree) # {} /\ ModuleTasks(rtree) # {}

\* C10: when a module task is parsed while one of its class child tasks has a
\* None doctree (no source), the parse raises and the run stops (no other
\* task is parsed afterwards).
C10_SourcelessClassFails ==
  [][ /\ (phase = "parse" /\ rtree.tasks[order[pos]].variant = "Module"
          /\ \E c \in ClassChildren(order[pos]) : doctree[c] = 0) => phase' = "error"
      /\ phase = "error" => phase' = "error" ]_vars

\* witness: the run has failed on such a module task
C10_Witness ==
  phase = "error" /\ \E c \in ClassChildren(order[pos]) : rtree.tasks[c].source = NoSource

Built1 == tree1 # NoTree
Built2 == tree2 # NoTree
FileName(f) == f[Len(f)]

\* C2: Task.create assigns each task's source at most once: no two indexed
\* files (even equal file names in different subdirectories) resolve to the
\* same leaf task.
C2_SourceAssignedOnce ==
  Built1 => \A p \in DOMAIN tree1.writes : tree1.writes[p] <= 1

\* C3: building the task tree from two enumeration orders of the same files
\* gives the same tasks (variant and source) and the same parent/child edges.
C3_CreateDeterministic ==
  (Built1 /\ Built2) =>
    /\ tree1.tasks = tree2.tasks
    /\ Edges(tree1) = Edges(tree2)

\* witness: two different enumeration orders of files two of which share a
\* file name, both indexed
C3_Witness ==
  /\ Built1 /\ Built2
  /\ enum1 # enum2
  /\ \E f, g \in files : f # g /\ FileName(f) = FileName(g)

\* C6: target_path is '<dirs>/__init__.pyi' exactly when the module task is
\* top-level (only the unnamed root encloses it) or has a Module child task;
\* otherwise it is '<parent dirs>/<name>.pyi'.
C6_TargetPathRule ==
  Built1 =>
    \A p \in ModuleTasks(tree1) :
      LET tp == TargetPath(tree1, p)
          isPkg == Len(p) = 1 \/ \E c \in SeqRange(Children(tree1, p)) : tree1.tasks[c].variant = "Module"
      IN IF isPkg THEN tp = <<Str_out>> \o p \o <<Str_init \o <<Dot>> \o Str_pyi>>
         ELSE tp = <<Str_out>> \o Front(p) \o <<p[Len(p)] \o <<Dot>> \o Str_pyi>>


====
